---- MODULE Spec2Model ----
(***************************************************************************)
(* Model of the Socket class of frontend/utils/socket.ts: the session      *)
(* controller, subscription registry, request correlator and message       *)
(* routing of the Mimic client, together with the RiftSocket transports    *)
(* it creates.  JavaScript is single threaded: every public method call    *)
(* and every transport callback runs to completion, so each is one action. *)
(***************************************************************************)
EXTENDS Integers, Sequences, FiniteSets, TLC

\* ---------------------------------------------------------------- bounds
MaxTransports == 2      \* RiftSocket instances constructed in one run
MaxId == 2              \* request ids allocated in one run
MaxObservers == 2       \* length of the observers list

\* ---------------------------------------------------------------- values
Null == 0
Transports == 1..MaxTransports

\* Paths are strings, modelled as sequences of characters.
Paths == {<<"a">>, <<"a", "b">>}
\* Sources of the regular expressions handed to observe (literal patterns).
PatternSources == {<<"b">>}
Handlers == {"h1", "h2"}
Codes == {"ABC123"}
Statuses == {200, 404}
Contents == {"c1"}
\* The <<method, body>> pairs handed to request by its callers.
Calls == {<<"GET", "undefined">>, <<"POST", "b1">>}

StringMatcher(p) == [kind |-> "string", src |-> p]
RegExpMatcher(r) == [kind |-> "regexp", src |-> r]
\* The matchers handed to observe: an exact path, and a pattern that matches the
\* other path only.
ObservedPaths == {<<"a">>}
Matchers == {StringMatcher(p) : p \in ObservedPaths} \cup {RegExpMatcher(r) : r \in PatternSources}

\* RegExp.prototype.test for a literal pattern: the source occurs in the text.
RegExpTest(src, text) ==
    \E i \in 1..(Len(text) - Len(src) + 1) : SubSeq(text, i, i + Len(src) - 1) = src

\* JSON.stringify of an array element: undefined is written as null.
JSONValue(v) == IF v = "undefined" THEN "null" ELSE v

\* Outbound frames, as written by JSON.stringify([opcode, ...]).
HandshakeFrame == [op |-> "HANDSHAKE"]
SubscribeFrame(m) == [op |-> "SUBSCRIBE", path |-> m.src]
UnsubscribeFrame(p) == [op |-> "UNSUBSCRIBE", path |-> p]
RequestFrame(id, p, method, body) ==
    [op |-> "REQUEST", id |-> id, path |-> p, method |-> method, body |-> JSONValue(body)]

\* Inbound frames (the WebsocketMessage type) and the texts that carry them.
UpdateFrames == [op : {"UPDATE"}, path : Paths, status : Statuses, content : Contents]
ResponseFrames == [op : {"RESPONSE"}, id : 0..MaxId, status : Statuses, content : Contents]
HandshakeCompleteFrames ==
    [op : {"HANDSHAKE_COMPLETE"}, version : {"v1"}, name : {"pc"}, token : {"tok"}]
InFrames == UpdateFrames \cup ResponseFrames \cup HandshakeCompleteFrames
Texts == [json : {TRUE}, value : InFrames] \cup {[json |-> FALSE]}

VARIABLES
    connected, connecting, socket, computerName, computerVersion,
    pushNotificationSubscriptionToken, code, idCounter, observers, requests,
    transports,       \* the RiftSocket instances constructed so far
    configName,       \* the name saved by withComputerConfig
    completions,      \* per request id, how often its resolve function has run
    lastId,           \* the highest id a REQUEST frame has carried so far, or -1
    closed,           \* close() has returned and connect() was not called since
    scenario          \* progress through connect -> open -> handshake complete -> observes

vars == <<connected, connecting, socket, computerName, computerVersion,
          pushNotificationSubscriptionToken, code, idCounter, observers, requests,
          transports, configName, completions, lastId, closed,
          scenario>>

\* ------------------------------------------------------- the transports
\* RiftSocket lives in rift-socket.ts; the model keeps what socket.ts uses of it:
\* its readyState, its three assignable callbacks, whether it ever opened and
\* whether anything was ever handed to its send().
UnusedTransport ==
    [state |-> "UNUSED", opened |-> FALSE,
     onopen |-> FALSE, onmessage |-> FALSE, onclose |-> FALSE,
     sent |-> FALSE]

\* new RiftSocket(code): a transport that is still connecting, no callback assigned.
NewRiftSocket == [UnusedTransport EXCEPT !.state = "CONNECTING"]

\* RiftSocket.send(text): the frame is handed to transport t.
TransportSend(S, t, frame) ==
    [S EXCEPT !.out = Append(@, <<t, frame>>),
              !.transports[t].sent = TRUE]

\* RiftSocket.close(): the transport ends.
TransportShut(S, t) == [S EXCEPT !.transports[t].state = "CLOSED"]

\* -------------------------------------------------------- the Socket class
\* The fields of the Socket instance at the start of a call, with empty effects.
Sess ==
    [connected |-> connected, connecting |-> connecting, socket |-> socket,
     computerName |-> computerName, computerVersion |-> computerVersion,
     pushNotificationSubscriptionToken |-> pushNotificationSubscriptionToken,
     code |-> code, idCounter |-> idCounter, observers |-> observers,
     requests |-> requests, transports |-> transports, configName |-> configName,
     out |-> <<>>, invoked |-> <<>>, thrown |-> "none", rejected |-> 0]

\* this.socket.send(frame): a TypeError when this.socket is null.
\* this.socket.send bound to the first RiftSocket instead of the owned one.
socketSend_FirstTransport(S, frame) ==
    IF S.socket = Null
    THEN [S EXCEPT !.thrown = "TypeError"]
    ELSE TransportSend(S, 1, frame)

socketSend(S, frame) ==
    IF S.socket = Null
    THEN [S EXCEPT !.thrown = "TypeError"]
    ELSE TransportSend(S, S.socket, frame)

\* request with the sequence number taken before the connected check.
request_CountsFirst(S, path, method, body, then) ==
    LET id == S.idCounter
        S1 == [S EXCEPT !.idCounter = id + 1]
    IN IF ~S.connected
       THEN [S1 EXCEPT !.thrown = "Not connected."]
       ELSE LET S2 == socketSend(S1, RequestFrame(id, path, method, body))
            IN IF S2.thrown # "none"
               THEN [S1 EXCEPT !.rejected = @ + 1]
               ELSE [S2 EXCEPT !.requests = (id :> then) @@ @]

\* request(path, method, body); `then` is the continuation attached to the
\* returned promise: "caller" for a public call, a handler for .then(handler).
request(S, path, method, body, then) ==
    IF ~S.connected
    THEN [S EXCEPT !.thrown = "Not connected."]
    ELSE LET id == S.idCounter
             S1 == [S EXCEPT !.idCounter = id + 1]
             S2 == socketSend(S1, RequestFrame(id, path, method, body))
         IN IF S2.thrown # "none"
            THEN [S1 EXCEPT !.rejected = @ + 1]  \* the executor threw: the promise rejects
            ELSE [S2 EXCEPT !.requests = (id :> then) @@ @]

\* observe that subscribes exact paths only.
observe_SkipsPatterns(S, path, handler) ==
    LET push(T) == [T EXCEPT !.observers = Append(@, [matcher |-> path, handler |-> handler])]
    IN IF S.connected /\ path.kind = "string"
       THEN LET S1 == request(S, path.src, "GET", "undefined", handler)
                S2 == IF S1.thrown # "none" THEN S1 ELSE socketSend(S1, SubscribeFrame(path))
            IN IF S2.thrown # "none" THEN S2 ELSE push(S2)
       ELSE push(S)

observe(S, path, handler) ==
    LET push(T) == [T EXCEPT !.observers = Append(@, [matcher |-> path, handler |-> handler])]
    IN IF S.connected
       THEN LET S1 == IF path.kind = "string"
                      THEN request(S, path.src, "GET", "undefined", handler)
                      ELSE S
                S2 == IF S1.thrown # "none" THEN S1 ELSE socketSend(S1, SubscribeFrame(path))
            IN IF S2.thrown # "none" THEN S2 ELSE push(S2)
       ELSE push(S)

\* The filter callback of unobserve, run over the observers in order.
RECURSIVE unobserveFilter(_, _, _)
unobserveFilter(S, xs, path) ==
    IF xs = <<>> THEN S
    ELSE LET x == Head(xs)
             S1 == IF x.matcher # StringMatcher(path) THEN S
                   ELSE IF S.socket # Null /\ S.transports[S.socket].state = "OPEN"
                        THEN socketSend(S, UnsubscribeFrame(path))
                        ELSE S
         IN unobserveFilter(S1, Tail(xs), path)

\* unobserve that announces the path once per call, removed or not.
unobserve_AlwaysUnsubscribes(S, path) ==
    LET S1 == IF S.socket # Null /\ S.transports[S.socket].state = "OPEN"
              THEN socketSend(S, UnsubscribeFrame(path))
              ELSE S
    IN [S1 EXCEPT
          !.observers = SelectSeq(S.observers, LAMBDA x : x.matcher # StringMatcher(path))]

unobserve(S, path) ==
    [unobserveFilter(S, S.observers, path) EXCEPT
        !.observers = SelectSeq(S.observers, LAMBDA x : x.matcher # StringMatcher(path))]

\* A matcher test that treats an exact path like a pattern.
MatcherMatches_Substring(matcher, path) == RegExpTest(matcher.src, path)

\* The UPDATE branch: filter the observers, then call each handler in order.
\* The status of a frame is a number (WebsocketMessage), which unary plus keeps.
MatcherMatches(matcher, path) ==
    IF matcher.kind = "string" THEN path = matcher.src ELSE RegExpTest(matcher.src, path)

dispatchUpdate(S, data) ==
    LET hit == SelectSeq(S.observers, LAMBDA x : MatcherMatches(x.matcher, data.path))
    IN [S EXCEPT !.invoked = @ \o [i \in 1..Len(hit) |->
            [fn |-> hit[i].handler, id |-> -1,
             res |-> [status |-> data.status, content |-> data.content]]]]

\* The RESPONSE branch without the test that a resolve function is stored.
resolveResponse_Unchecked(S, data) ==
    LET res == [status |-> data.status, content |-> data.content]
    IN IF data.id \in DOMAIN S.requests
       THEN LET then == S.requests[data.id]
                calls == <<[fn |-> "resolve", id |-> data.id, res |-> res]>>
                         \o (IF then = "caller" THEN <<>>
                             ELSE <<[fn |-> then, id |-> data.id, res |-> res]>>)
            IN [S EXCEPT !.invoked = @ \o calls,
                         !.requests = [i \in DOMAIN @ \ {data.id} |-> @[i]]]
       ELSE [S EXCEPT !.thrown = "TypeError"]

\* The RESPONSE branch without the delete.
resolveResponse_KeepsEntry(S, data) ==
    IF data.id \in DOMAIN S.requests
    THEN LET res == [status |-> data.status, content |-> data.content]
             then == S.requests[data.id]
             calls == <<[fn |-> "resolve", id |-> data.id, res |-> res]>>
                      \o (IF then = "caller" THEN <<>>
                          ELSE <<[fn |-> then, id |-> data.id, res |-> res]>>)
         IN [S EXCEPT !.invoked = @ \o calls]
    ELSE S

\* The RESPONSE branch: call the stored resolve function, then delete it.
\* Resolving runs the continuation attached with .then() before the next event.
resolveResponse(S, data) ==
    IF data.id \in DOMAIN S.requests
    THEN LET res == [status |-> data.status, content |-> data.content]
             then == S.requests[data.id]
             calls == <<[fn |-> "resolve", id |-> data.id, res |-> res]>>
                      \o (IF then = "caller" THEN <<>>
                          ELSE <<[fn |-> then, id |-> data.id, res |-> res]>>)
         IN [S EXCEPT !.invoked = @ \o calls,
                      !.requests = [i \in DOMAIN @ \ {data.id} |-> @[i]]]
    ELSE S

\* observers.forEach of the HANDSHAKE_COMPLETE branch; an exception ends the loop.
RECURSIVE replay(_, _)
replay(S, xs) ==
    IF xs = <<>> \/ S.thrown # "none" THEN S
    ELSE LET x == Head(xs)
             S1 == socketSend(S, SubscribeFrame(x.matcher))
             S2 == IF S1.thrown # "none" THEN S1
                   ELSE IF x.matcher.kind = "string"
                        THEN request(S1, x.matcher.src, "GET", "undefined", x.handler)
                        ELSE S1
         IN replay(S2, Tail(xs))

handshakeComplete(S, data) ==
    LET S1 == [S EXCEPT !.pushNotificationSubscriptionToken = data.token,
                        !.computerName = data.name,
                        !.computerVersion = data.version,
                        !.configName = data.name]
    IN replay(S1, S1.observers)

\* handleWebsocketMessage without the try/catch around JSON.parse.
handleWebsocketMessage_Unguarded(S, msg) ==
    IF ~msg.json THEN [S EXCEPT !.thrown = "SyntaxError"]
    ELSE LET data == msg.value
             S1 == IF data.op = "UPDATE" THEN dispatchUpdate(S, data) ELSE S
             S2 == IF data.op = "RESPONSE" THEN resolveResponse(S1, data) ELSE S1
         IN IF data.op = "HANDSHAKE_COMPLETE" THEN handshakeComplete(S2, data) ELSE S2

handleWebsocketMessage(S, msg) ==
    IF ~msg.json THEN S   \* JSON.parse threw: logged and ignored
    ELSE LET data == msg.value
             S1 == IF data.op = "UPDATE" THEN dispatchUpdate(S, data) ELSE S
             S2 == IF data.op = "RESPONSE" THEN resolveResponse(S1, data) ELSE S1
         IN IF data.op = "HANDSHAKE_COMPLETE" THEN handshakeComplete(S2, data) ELSE S2

\* close that also starts the sequence numbers again.
close_ResetsCounter(S) ==
    IF S.socket # Null
    THEN LET S1 == [S EXCEPT !.transports[S.socket].onopen = FALSE,
                             !.transports[S.socket].onmessage = FALSE,
                             !.transports[S.socket].onclose = FALSE]
             S2 == TransportShut(S1, S.socket)
         IN [S2 EXCEPT !.socket = Null, !.connecting = FALSE, !.connected = FALSE,
                       !.idCounter = 0]
    ELSE S

close(S) ==
    IF S.socket # Null
    THEN LET S1 == [S EXCEPT !.transports[S.socket].onopen = FALSE,
                             !.transports[S.socket].onmessage = FALSE,
                             !.transports[S.socket].onclose = FALSE]
             S2 == TransportShut(S1, S.socket)
         IN [S2 EXCEPT !.socket = Null, !.connecting = FALSE, !.connected = FALSE]
    ELSE S

\* connect that starts the new connection without observations.
connect_ForgetsObservers(S, c, t, ctorThrows) ==
    LET S1 == [S EXCEPT !.connecting = TRUE, !.code = c, !.observers = <<>>]
    IN IF ctorThrows THEN S1
       ELSE [S1 EXCEPT !.socket = t,
                       !.transports[t] = [NewRiftSocket EXCEPT !.onopen = TRUE,
                                              !.onmessage = TRUE, !.onclose = TRUE]]

\* connect(code); t is the RiftSocket the constructor returns, or the
\* constructor throws and the catch block logs the error.
connect(S, c, t, ctorThrows) ==
    LET S1 == [S EXCEPT !.connecting = TRUE, !.code = c]
    IN IF ctorThrows THEN S1
       ELSE [S1 EXCEPT !.socket = t,
                       !.transports[t] = [NewRiftSocket EXCEPT !.onopen = TRUE,
                                              !.onmessage = TRUE, !.onclose = TRUE]]

\* The onopen callback assigned in connect.
onopen(S) ==
    socketSend([S EXCEPT !.connected = TRUE, !.connecting = FALSE], HandshakeFrame)

\* An onclose that ends the connection attempt it reports as failed.
onclose_EndsAttempt(S) ==
    IF S.connecting THEN [S EXCEPT !.connecting = FALSE] ELSE [S EXCEPT !.connected = FALSE]

\* The onclose callback assigned in connect.
onclose(S) ==
    IF S.connecting THEN S ELSE [S EXCEPT !.connected = FALSE]

\* ---------------------------------------------------------------- steps
\* A call of a public method or a transport callback is a record l; Run(l) is
\* the session it leaves behind, with the frames it sent (out), the functions it
\* called (invoked), the exception that left it (thrown) and the promises it
\* created that rejected (rejected).
ConnectCall(c, f) == [op |-> "connect", code |-> c, ctorThrows |-> f]
TryReconnectCall(f) == [op |-> "tryReconnect", ctorThrows |-> f]
CloseCall == [op |-> "close"]
ObserveCall(m, h) == [op |-> "observe", matcher |-> m, handler |-> h]
UnobserveCall(p) == [op |-> "unobserve", path |-> p]
RequestCall(p, method, body) == [op |-> "request", path |-> p, method |-> method, body |-> body]
OpenEvent(t) == [op |-> "open", t |-> t]
MessageEvent(t, msg) == [op |-> "message", t |-> t, msg |-> msg]
CloseEvent(t) == [op |-> "closed", t |-> t]

HasFresh == \E t \in Transports : transports[t].state = "UNUSED"
FreshTransport == CHOOSE t \in Transports :
    /\ transports[t].state = "UNUSED"
    /\ \A u \in Transports : u < t => transports[u].state # "UNUSED"

\* Whether l can happen now: a constructor needs an instance to return, and a
\* transport fires open once, messages while open, close before it has ended.
Possible(l) ==
    CASE l.op \in {"connect", "tryReconnect"} -> l.ctorThrows \/ HasFresh
      [] l.op = "open" -> transports[l.t].state = "CONNECTING"
      [] l.op = "message" -> transports[l.t].state = "OPEN"
      [] l.op = "closed" -> transports[l.t].state \in {"CONNECTING", "OPEN"}
      [] OTHER -> TRUE

\* The callbacks as the transport calls them (a callback set to null is skipped).
OpenResult(t) ==
    LET S1 == [Sess EXCEPT !.transports[t].state = "OPEN", !.transports[t].opened = TRUE]
    IN IF transports[t].onopen THEN onopen(S1) ELSE S1

MessageResult(t, msg) ==
    IF transports[t].onmessage THEN handleWebsocketMessage(Sess, msg) ELSE Sess

CloseResult(t) ==
    LET S1 == [Sess EXCEPT !.transports[t].state = "CLOSED"]
    IN IF transports[t].onclose THEN onclose(S1) ELSE S1

ConnectResult(c, ctorThrows) ==
    connect(Sess, c, IF ctorThrows THEN Null ELSE FreshTransport, ctorThrows)

Run(l) ==
    CASE l.op = "connect" -> ConnectResult(l.code, l.ctorThrows)
      [] l.op = "tryReconnect" -> ConnectResult(code, l.ctorThrows)
      [] l.op = "close" -> close(Sess)
      [] l.op = "observe" -> observe(Sess, l.matcher, l.handler)
      [] l.op = "unobserve" -> unobserve(Sess, l.path)
      [] l.op = "request" -> request(Sess, l.path, l.method, l.body, "caller")
      [] l.op = "open" -> OpenResult(l.t)
      [] l.op = "message" -> MessageResult(l.t, l.msg)
      [] l.op = "closed" -> CloseResult(l.t)

Init ==
    /\ connected = FALSE
    /\ connecting = FALSE
    /\ socket = Null
    /\ computerName = ""
    /\ computerVersion = ""
    /\ pushNotificationSubscriptionToken = ""
    /\ code = ""
    /\ idCounter = 0
    /\ observers = <<>>
    /\ requests = <<>>
    /\ transports = [t \in Transports |-> UnusedTransport]
    /\ configName = ""
    /\ completions = [i \in 0..(MaxId - 1) |-> 0]
    /\ lastId = -1
    /\ closed = FALSE
    /\ scenario = [phase |-> "off", base |-> 0, log |-> <<>>]

\* Where the step leaves the run connect -> open -> HANDSHAKE_COMPLETE -> observe*:
\* base is the length of the observers list at the handshake completion, log the
\* frames sent by the observe calls since.
ScenarioAfter(R, l) ==
    IF l.op \in {"connect", "tryReconnect"} /\ ~l.ctorThrows
    THEN [phase |-> "connect", base |-> 0, log |-> <<>>]
    ELSE IF l.op = "open" /\ scenario.phase = "connect" /\ l.t = socket
    THEN [scenario EXCEPT !.phase = "open"]
    ELSE IF /\ l.op = "message" /\ scenario.phase = "open" /\ l.t = socket
            /\ l.msg.json /\ l.msg.value.op = "HANDSHAKE_COMPLETE"
    THEN [phase |-> "complete", base |-> Len(R.observers), log |-> <<>>]
    ELSE IF l.op = "observe" /\ scenario.phase = "complete"
    THEN [scenario EXCEPT !.log = @ \o R.out]
    ELSE [phase |-> "off", base |-> 0, log |-> <<>>]

CountResolves(calls, i) ==
    Cardinality({k \in 1..Len(calls) : calls[k].fn = "resolve" /\ calls[k].id = i})

\* The highest id among the REQUEST frames of sent, or floor when there is none.
RECURSIVE HighestId(_, _)
HighestId(sent, floor) ==
    IF sent = <<>> THEN floor
    ELSE LET f == Head(sent)[2]
         IN HighestId(Tail(sent), IF f.op = "REQUEST" /\ f.id > floor THEN f.id ELSE floor)

\* Whether, after l, the last of the calls close() and connect() was a close().
ClosedAfter(l) ==
    IF l.op = "close" THEN TRUE
    ELSE IF l.op \in {"connect", "tryReconnect"} THEN FALSE
    ELSE closed

\* The session R left by call or callback l becomes the state.
Commit(R, l) ==
    /\ R.idCounter <= MaxId
    /\ Len(R.observers) <= MaxObservers
    /\ connected' = R.connected
    /\ connecting' = R.connecting
    /\ socket' = R.socket
    /\ computerName' = R.computerName
    /\ computerVersion' = R.computerVersion
    /\ pushNotificationSubscriptionToken' = R.pushNotificationSubscriptionToken
    /\ code' = R.code
    /\ idCounter' = R.idCounter
    /\ observers' = R.observers
    /\ requests' = R.requests
    /\ transports' = R.transports
    /\ configName' = R.configName
    /\ completions' =
          [i \in DOMAIN completions |-> completions[i] + CountResolves(R.invoked, i)]
    /\ lastId' = HighestId(R.out, lastId)
    /\ closed' = ClosedAfter(l)
    /\ scenario' = ScenarioAfter(R, l)

Connect(c, ctorThrows) ==
    /\ ctorThrows \/ HasFresh
    /\ Commit(ConnectResult(c, ctorThrows), ConnectCall(c, ctorThrows))

\* tryReconnect(): connect with the stored code.
TryReconnect(ctorThrows) ==
    /\ ctorThrows \/ HasFresh
    /\ Commit(ConnectResult(code, ctorThrows), TryReconnectCall(ctorThrows))

Close ==
    /\ Commit(close(Sess), CloseCall)

Observe(m, h) ==
    /\ Commit(observe(Sess, m, h), ObserveCall(m, h))

Unobserve(p) ==
    /\ Commit(unobserve(Sess, p), UnobserveCall(p))

Request(p, method, body) ==
    /\ Commit(request(Sess, p, method, body, "caller"), RequestCall(p, method, body))

\* Transport t reports that it is open.
TransportOpen(t) ==
    /\ transports[t].state = "CONNECTING"
    /\ Commit(OpenResult(t), OpenEvent(t))

\* Open transport t delivers a text frame.
TransportMessage(t, msg) ==
    /\ transports[t].state = "OPEN"
    /\ Commit(MessageResult(t, msg), MessageEvent(t, msg))

\* Transport t ends, before or after it opened.
TransportClose(t) ==
    /\ transports[t].state \in {"CONNECTING", "OPEN"}
    /\ Commit(CloseResult(t), CloseEvent(t))

Next ==
    \/ \E c \in Codes, f \in BOOLEAN : Connect(c, f)
    \/ \E f \in BOOLEAN : TryReconnect(f)
    \/ Close
    \/ \E m \in Matchers, h \in Handlers : Observe(m, h)
    \/ \E p \in Paths : Unobserve(p)
    \/ \E p \in Paths, c \in Calls : Request(p, c[1], c[2])
    \/ \E t \in Transports : TransportOpen(t)
    \/ \E t \in Transports, msg \in Texts : TransportMessage(t, msg)
    \/ \E t \in Transports : TransportClose(t)

Spec == Init /\ [][Next]_vars

\* P holds of every call and callback that can happen in the current state.
ForAllCalls(P(_)) ==
    /\ \A c \in Codes, f \in BOOLEAN : Possible(ConnectCall(c, f)) => P(ConnectCall(c, f))
    /\ \A f \in BOOLEAN : Possible(TryReconnectCall(f)) => P(TryReconnectCall(f))
    /\ P(CloseCall)
    /\ \A m \in Matchers, h \in Handlers : P(ObserveCall(m, h))
    /\ \A p \in Paths : P(UnobserveCall(p))
    /\ \A p \in Paths, c \in Calls : P(RequestCall(p, c[1], c[2]))
    /\ \A t \in Transports : Possible(OpenEvent(t)) => P(OpenEvent(t))
    /\ \A t \in Transports, msg \in Texts :
            Possible(MessageEvent(t, msg)) => P(MessageEvent(t, msg))
    /\ \A t \in Transports : Possible(CloseEvent(t)) => P(CloseEvent(t))

\* ---------------------------------------------------------------- claims
\* The frames of a sequence of <<transport, frame>> pairs that carry opcode op.
FramesOf(sent, op) == SelectSeq(sent, LAMBDA e : e[2].op = op)

\* Transport t is open and still routes its messages to the session.
Delivers(t) == transports[t].state = "OPEN" /\ transports[t].onmessage

\* C1: whenever connected is true the session owns a transport, and that
\* transport is open.
C1_ConnectedOwnsOpenTransport ==
    connected => (socket # Null /\ transports[socket].state = "OPEN")

\* C2: connected and connecting are never both true between two calls or
\* callbacks (the instant inside the onclose callback is not a state here).
C2_ConnectedExcludesConnecting == ~(connected /\ connecting)

\* What C3 asks of call or callback l, which leaves the session as R.
C3_Holds(l, R) ==
    /\ \A k \in 1..Len(R.out) :
          LET t == R.out[k][1]
              f == R.out[k][2]
          IN /\ R.transports[t].opened
             /\ f.op = "HANDSHAKE" => (l.op = "open" /\ l.t = t)
             /\ (~transports[t].sent /\ \A j \in 1..(k - 1) : R.out[j][1] # t)
                    => f.op = "HANDSHAKE"
    /\ l.op = "open" =>
          Len(SelectSeq(R.out, LAMBDA e : e[1] = l.t /\ e[2].op = "HANDSHAKE")) = 1

C3_Step(l) == Commit(Run(l), l) => C3_Holds(l, Run(l))

\* C3: on every transport the first frame sent is HANDSHAKE, a HANDSHAKE is sent
\* on a transport only by that transport's own open event, once per open event,
\* and nothing is sent on a transport that has not opened.
C3_HandshakeFirstOnOwnTransport == [][ForAllCalls(C3_Step)]_vars

\* R is the session as it was, left by the exception "Not connected.".
C4_Holds(R) == R = [Sess EXCEPT !.thrown = "Not connected."]

\* C4: request() called while connected is false throws "Not connected." and
\* does nothing else: no frame, no pending request, same sequence counter.
C4_RequestWhileDisconnectedOnlyThrows ==
    ~connected =>
        \A p \in Paths, c \in Calls, k \in {"caller"} \cup Handlers :
            C4_Holds(request(Sess, p, c[1], c[2], k))

\* C4 witness: not connected although the owned transport is open and a request
\* is pending; request() throws there.
C4_Witness ==
    /\ ~connected /\ socket # Null /\ transports[socket].state = "OPEN"
    /\ requests # <<>>
    /\ request(Sess, <<"a">>, "GET", "undefined", "caller").thrown = "Not connected."

\* What C5 asks of call or callback l, which leaves the session as R.
C5_Holds(l, R) ==
    LET isResponse == l.op = "message" /\ l.msg.json /\ l.msg.value.op = "RESPONSE"
        resolves == SelectSeq(R.invoked, LAMBDA e : e.fn = "resolve")
    IN /\ \A k \in 1..Len(resolves) :
            /\ isResponse
            /\ resolves[k].id = l.msg.value.id
            /\ resolves[k].res = [status |-> l.msg.value.status,
                                  content |-> l.msg.value.content]
       /\ Len(resolves) <= 1
       /\ (isResponse /\ transports[l.t].onmessage) =>
            /\ Len(resolves) = 1 <=> l.msg.value.id \in DOMAIN requests
            /\ l.msg.value.id \notin DOMAIN R.requests
            /\ \A i \in DOMAIN requests \ {l.msg.value.id} :
                   i \in DOMAIN R.requests /\ R.requests[i] = requests[i]
            /\ l.msg.value.id \notin DOMAIN requests => R.invoked = <<>>

C5_Call(l) == C5_Holds(l, Run(l))

\* C5: the resolve function of request id i runs at most once in a run; it runs
\* exactly in the step that processes a RESPONSE frame carrying i while i is
\* pending, with the status and content of that frame, and that step removes i
\* from the pending requests, so that a later RESPONSE carrying i calls nothing.
C5_CompletionExactlyOnce ==
    /\ \A i \in DOMAIN completions :
          /\ completions[i] <= 1
          /\ completions[i] = 1 => (i < idCounter /\ i \notin DOMAIN requests)
    /\ \A i \in DOMAIN requests : i < idCounter
    /\ ForAllCalls(C5_Call)

\* C5 witness: request 0 was resolved, request 1 is pending, and a transport
\* can still deliver a RESPONSE frame carrying 0.
C5_Witness ==
    /\ completions[0] = 1 /\ 1 \in DOMAIN requests
    /\ \E t \in Transports : Delivers(t)

\* The promise returned by the request that left R is pending.
C6_Holds(R) ==
    /\ R.rejected = 0
    /\ R.thrown = "none"
    /\ idCounter \in DOMAIN R.requests

\* C6: the promise returned by request() never rejects: whenever request() passes
\* its connected check the promise is pending, with its resolve function stored.
C6_RequestNeverRejects ==
    connected =>
        \A p \in Paths, c \in Calls : C6_Holds(request(Sess, p, c[1], c[2], "caller"))

\* C7: a RESPONSE frame whose id is not pending changes nothing: nothing is
\* called, thrown or sent, and the session is as before.
C7_StaleResponseIgnored ==
    \A t \in Transports, f \in ResponseFrames :
        (transports[t].state = "OPEN" /\ f.id \notin DOMAIN requests)
            => MessageResult(t, [json |-> TRUE, value |-> f]) = Sess

\* C7 witness: a transport delivers, request 0 was resolved (its id is stale),
\* request 1 is pending and an observation is registered.
C7_Witness ==
    /\ \E t \in Transports : Delivers(t)
    /\ completions[0] = 1 /\ 0 \notin DOMAIN requests /\ 1 \in DOMAIN requests
    /\ observers # <<>>

\* The handler calls C8 expects of UPDATE frame f, given the observations obs.
RECURSIVE C8_Expected(_, _)
C8_Expected(obs, f) ==
    IF obs = <<>> THEN <<>>
    ELSE LET x == Head(obs)
             hit == \/ x.matcher.kind = "string" /\ x.matcher.src = f.path
                    \/ x.matcher.kind = "regexp" /\ RegExpTest(x.matcher.src, f.path)
         IN (IF hit THEN <<[fn |-> x.handler, id |-> -1,
                            res |-> [status |-> f.status, content |-> f.content]]>>
             ELSE <<>>) \o C8_Expected(Tail(obs), f)

C9_ObserveAfterHandshake ==
    scenario.phase = "complete" =>
        LET added == SubSeq(observers, scenario.base + 1, Len(observers))
            exact == SelectSeq(added, LAMBDA x : x.matcher.kind = "string")
            subs == FramesOf(scenario.log, "SUBSCRIBE")
            reqs == FramesOf(scenario.log, "REQUEST")
        IN /\ Len(subs) = Len(added)
           /\ \A i \in 1..Len(subs) : subs[i] = <<socket, SubscribeFrame(added[i].matcher)>>
           /\ Len(reqs) = Len(exact)
           /\ \A i \in 1..Len(reqs) :
                 /\ reqs[i][1] = socket
                 /\ reqs[i][2].path = exact[i].matcher.src
                 /\ reqs[i][2].method = "GET"
           /\ Len(scenario.log) = Len(subs) + Len(reqs)

\* C9 witness: the run was followed by two observe calls, a pattern and then an
\* exact path.
C9_Witness ==
    /\ scenario.phase = "complete" /\ scenario.base = 0 /\ Len(observers) = 2
    /\ observers[1].matcher.kind = "regexp" /\ observers[2].matcher.kind = "string"
    /\ Len(scenario.log) = 3

\* What C10 asks of the session R left by a HANDSHAKE_COMPLETE frame.
C10_Holds(R) ==
    LET exact == SelectSeq(observers, LAMBDA x : x.matcher.kind = "string")
        subs == FramesOf(R.out, "SUBSCRIBE")
        reqs == FramesOf(R.out, "REQUEST")
    IN /\ R.thrown = "none"
       /\ Len(subs) = Len(observers)
       /\ \A i \in 1..Len(subs) : subs[i][2] = SubscribeFrame(observers[i].matcher)
       /\ Len(reqs) = Len(exact)
       /\ \A i \in 1..Len(reqs) :
             /\ reqs[i][2].path = exact[i].matcher.src
             /\ reqs[i][2].id \in DOMAIN R.requests
             /\ R.requests[reqs[i][2].id] = exact[i].handler

\* C10: every processed HANDSHAKE_COMPLETE frame replays the whole observers
\* list: one SUBSCRIBE per observation in registration order, and one bootstrap
\* REQUEST per exact-path observation, pending with that observation's handler.
C10_ReplayCoversAllObservers ==
    \A t \in Transports, f \in HandshakeCompleteFrames :
        Delivers(t) => C10_Holds(MessageResult(t, [json |-> TRUE, value |-> f]))

\* What C11 asks of the session R left by a call or callback: the counter did
\* not go down, and the REQUEST frames sent carry ids above every earlier id, in
\* increasing order, that were not pending and are below the new counter.
C11_Holds(R) ==
    LET reqs == FramesOf(R.out, "REQUEST")
    IN /\ R.idCounter >= idCounter
       /\ \A k \in 1..Len(reqs) :
             /\ reqs[k][2].id > lastId
             /\ reqs[k][2].id >= idCounter
             /\ reqs[k][2].id < R.idCounter
             /\ reqs[k][2].id \notin DOMAIN requests
             /\ \A j \in 1..(k - 1) : reqs[j][2].id < reqs[k][2].id
       /\ \A i \in DOMAIN R.requests \ DOMAIN requests :
             \E k \in 1..Len(reqs) : reqs[k][2].id = i
       /\ \A i \in DOMAIN requests \cap DOMAIN R.requests : R.requests[i] = requests[i]

C11_Call(l) == C11_Holds(Run(l))

\* C11: the sequence counter never decreases, whatever is called; every REQUEST
\* frame carries an id greater than every id sent before; so pending requests
\* never share an id and recording one never overwrites another.
C11_FreshIds ==
    /\ lastId < idCounter
    /\ \A i \in DOMAIN requests : i <= lastId
    /\ ForAllCalls(C11_Call)

\* C11 witness: two requests are pending under the ids 0 and 1 after the session
\* was closed and connected again.
C11_Witness ==
    /\ DOMAIN requests = {0, 1} /\ lastId = 1 /\ idCounter = 2
    /\ socket = 2 /\ transports[1].state = "CLOSED" /\ ~transports[1].onclose

\* A transport event that its transport can fire now.
C12_Events ==
    {l \in [op : {"open", "closed"}, t : Transports]
           \cup {MessageEvent(t, msg) : t \in Transports, msg \in Texts} : Possible(l)}

\* The event left the session as it was: no field changed, nothing was sent,
\* called or thrown (the transport's own state aside).
C12_Quiet(R) == [R EXCEPT !.transports = transports] = Sess

C12_QuietEvent(l) == C12_Quiet(Run(l))

\* C12: close() leaves connecting and connected false and no owned transport;
\* after it, until connect() is called, no transport event changes the session,
\* calls a handler or sends a frame; without an owned transport close() changes
\* nothing.
C12_CloseIsFinal ==
    /\ ~close(Sess).connecting /\ ~close(Sess).connected /\ close(Sess).socket = Null
    /\ socket = Null => close(Sess) = Sess
    /\ closed => \A l \in C12_Events : C12_QuietEvent(l)

\* Some observation is registered on the exact path p.
Observed(p) == \E k \in 1..Len(observers) : observers[k].matcher = StringMatcher(p)

\* What C13 asks of the session R left by unobserve(p).
C13_Holds(p, R) ==
    /\ R.observers = SelectSeq(observers, LAMBDA x : x.matcher # StringMatcher(p))
    /\ connected /\ Observed(p) => /\ Len(R.out) = 1
                                   /\ R.out[1][2] = UnsubscribeFrame(p)
    /\ ~(connected /\ Observed(p)) => R.out = <<>>

\* C13: unobserve(m) removes every observation on m and keeps the others in
\* order; connected, it sends exactly one UNSUBSCRIBE for m per call that
\* removed something, duplicates included; not connected, it sends nothing.
C13_UnobserveSendsOnce == \A p \in Paths : C13_Holds(p, unobserve(Sess, p))

\* A session record as the next call finds it: without the effects of this one.
Settled(R) == [R EXCEPT !.out = <<>>, !.invoked = <<>>, !.thrown = "none", !.rejected = 0]

C14_NoOp(S, p) == unobserve(S, p) = S

\* C14: unobserve(m) without an observation on m sends nothing, throws nothing
\* and changes nothing; a second unobserve(m) right after a first has no effect.
C14_UnobserveIdempotent ==
    \A p \in Paths :
        /\ ~Observed(p) => C14_NoOp(Sess, p)
        /\ C14_NoOp(Settled(unobserve(Sess, p)), p)

\* C14 witness: a connected session with an open transport, an observation on
\* the path "a" and one on a pattern, and none on the path "a/b".
C14_Witness ==
    /\ connected /\ socket # Null /\ transports[socket].state = "OPEN"
    /\ Len(observers) = 2
    /\ Observed(<<"a">>) /\ ~Observed(<<"a", "b">>)
    /\ \E k \in 1..2 : observers[k].matcher.kind = "regexp"

\* What C15 asks of the session R left by observe(m, h).
C15_Holds(m, h, R) ==
    /\ R.observers = Append(observers, [matcher |-> m, handler |-> h])
    /\ ~connected => /\ R.out = <<>>
                     /\ R.idCounter = idCounter
                     /\ R.requests = requests

\* C15: observe registers unconditionally: afterwards the list is the previous
\* list with the new entry appended; not connected, it sends no frame and issues
\* no request.
C15_ObserveAlwaysRegisters ==
    \A m \in Matchers, h \in Handlers : C15_Holds(m, h, observe(Sess, m, h))

\* C16: once the close event of a transport is processed, connected is false,
\* whether the session was still connecting or not.
C16_CloseEventDisconnects ==
    \A t \in Transports :
        Possible(CloseEvent(t)) /\ transports[t].onclose => ~CloseResult(t).connected

\* C17: a received frame that does not parse is dropped: nothing is thrown,
\* called or sent, and no field of the session changes.
C17_GarbageIgnored ==
    \A t \in Transports :
        Possible(MessageEvent(t, [json |-> FALSE])) =>
            MessageResult(t, [json |-> FALSE]) = Sess

\* C17 witness: a transport delivers to a connected session that has an
\* observation, a pending request and the remote identity.
C17_Witness ==
    /\ \E t \in Transports : Delivers(t)
    /\ connected /\ observers # <<>> /\ requests # <<>> /\ computerName # ""

\* What C18 asks of call or callback l, which leaves the session as R.
C18_Holds(l, R) ==
    /\ l.op \in {"connect", "tryReconnect", "close", "open", "closed"} =>
          /\ R.requests = requests
          /\ R.observers = observers
          /\ R.invoked = <<>>
    /\ l.op # "unobserve" =>
          /\ Len(R.observers) >= Len(observers)
          /\ SubSeq(R.observers, 1, Len(observers)) = observers
    /\ l.op = "unobserve" =>
          R.observers = SelectSeq(observers, LAMBDA x : x.matcher # StringMatcher(l.path))

C18_Call(l) == C18_Holds(l, Run(l))

\* C18: close(), connect() and the open and close events of a transport leave
\* the pending requests and the observations as they are and call no
\* completion; an observation goes only by unobserve() for its exact path, so
\* the observations are still there after close() and connect(), and the
\* handshake completion that follows the new transport's opening replays them.
C18_LifecycleKeepsRegistrations ==
    /\ ForAllCalls(C18_Call)
    /\ scenario.phase = "open" =>
          \A f \in HandshakeCompleteFrames :
              C10_Holds(MessageResult(socket, [json |-> TRUE, value |-> f]))

\* C18 witness: the session was closed and connected again, the new transport
\* has opened, and the observations and a pending request are still there.
C18_Witness ==
    /\ scenario.phase = "open" /\ socket = 2
    /\ transports[1].state = "CLOSED" /\ ~transports[1].onclose
    /\ Len(observers) = 2 /\ requests # <<>>

\* What C19 asks of the session R left by a call or callback.
C19_Holds(R) ==
    \A k \in 1..Len(R.out) : R.out[k][1] = socket /\ R.out[k][1] = R.socket

C19_Call(l) == C19_Holds(Run(l))

\* C19: every frame is sent on the transport the session owns at that moment,
\* never on a superseded one; the open event and the messages of a superseded
\* transport make the session send on the transport that replaced it.
C19_SendsOnOwnedTransport == ForAllCalls(C19_Call)

\* C19 witness: the first transport, superseded by the second, delivers a
\* handshake completion and the replay is sent on the second.
C19_Witness ==
    /\ socket = 2 /\ Delivers(1) /\ connected /\ observers # <<>>
    /\ \E f \in HandshakeCompleteFrames :
          LET out == MessageResult(1, [json |-> TRUE, value |-> f]).out
          IN out # <<>> /\ \A k \in 1..Len(out) : out[k][1] = 2

\* What C20 asks of call or callback l, which leaves the session as R.
C20_Holds(l, R) ==
    /\ connecting /\ ~R.connecting =>
          \/ l.op = "open" /\ transports[l.t].onopen
          \/ l.op = "close" /\ socket # Null
    /\ l.op = "closed" => R.connecting = connecting

C20_Call(l) == C20_Holds(l, Run(l))

\* C20: connecting goes from true to false only in an open event or in a
\* close() that finds an owned transport; a close event never resets it, so it
\* stays true after a failed attempt until one of the two occurs.
C20_ConnectingResetOnlyByOpenOrClose == ForAllCalls(C20_Call)

\* C20 witness: the attempt has failed (the owned transport closed without
\* having opened, or the constructor threw) and connecting is still true.
C20_Witness ==
    /\ connecting /\ ~connected
    /\ \A t \in Transports : transports[t].state # "UNUSED" =>
          transports[t].state = "CLOSED" /\ ~transports[t].opened
    /\ socket # Null
====
